---- MODULE Spec2Model ----
(***************************************************************************)
(* A model of the heartbeat audio visualizer: the App component of         *)
(* src/heartbeat.tsx (variant "tsx") and its earlier form                  *)
(* src/heartbeat.jsx (variant "jsx").                                      *)
(*                                                                         *)
(* One action is one browser task: an event handler or a timer / promise / *)
(* animation-frame callback, together with the React commit it causes      *)
(* (re-render and the effects whose dependencies changed).                 *)
(*                                                                         *)
(* Numbers are exact rationals [n |-> numerator, d |-> denominator]; the   *)
(* rounding of IEEE doubles is not modelled.                               *)
(*                                                                         *)
(* Time is counted in quanta of Quantum milliseconds since the timer was   *)
(* armed or last fired; a timer fires exactly at its expiry, which may lie *)
(* inside a quantum, and every other task runs on a quantum boundary.      *)
(***************************************************************************)
EXTENDS Integers, Sequences, FiniteSets, TLC

-----------------------------------------------------------------------------
(* Program constants *)

MIN_BPM == 30
MAX_BPM == 220
MAX_VISUAL_FLASHES_PER_SEC == 3
TSX_INITIAL_BPM == 162
JSX_INITIAL_BPM == 72
BPM_PRESETS == {50, 72, 110, 155, 190}
INITIAL_VOLUME == 70   \* useState(0.7), in hundredths

-----------------------------------------------------------------------------
(* Bounds of the model *)

Quantum == 250        \* milliseconds per time step
MaxGapQ == 9          \* the time since the last beat is counted up to this many quanta
MaxBeat == 4          \* no beat is triggered once the beat counter has reached this
MaxPending == 2       \* start() calls that may await resume() at once

-----------------------------------------------------------------------------
(* Exact arithmetic *)

Min(a, b) == IF a <= b THEN a ELSE b
Max(a, b) == IF a >= b THEN a ELSE b

RECURSIVE GCD(_, _)
GCD(a, b) == IF b = 0 THEN a ELSE GCD(b, a % b)

\* the rational n/d in lowest terms, d > 0
Frac(n, d) ==
  LET g == GCD(IF n < 0 THEN -n ELSE n, d)
  IN  IF n = 0 THEN [n |-> 0, d |-> 1] ELSE [n |-> n \div g, d |-> d \div g]

FracMul(a, b) == Frac(a.n * b.n, a.d * b.d)
FracAdd(a, b) == Frac(a.n * b.d + b.n * a.d, a.d * b.d)
FracSub(a, b) == Frac(a.n * b.d - b.n * a.d, a.d * b.d)
\* a / b for b > 0
FracDiv(a, b) == Frac(a.n * b.d, a.d * b.n)
FracLess(a, b) == a.n * b.d < b.n * a.d
FracLeq(a, b) == a.n * b.d <= b.n * a.d
\* a % b of JavaScript for a >= 0, b > 0
FracMod(a, b) ==
  LET q == (a.n * b.d) \div (b.n * a.d)
  IN  Frac(a.n * b.d - q * b.n * a.d, a.d * b.d)
FracCeil(a) == -((-a.n) \div a.d)
FracFloor(a) == a.n \div a.d

-----------------------------------------------------------------------------
(* Text: a string is a sequence of one-character strings *)

Digits == {"0", "1", "2", "3", "4", "5", "6", "7", "8", "9"}
DigitVal == [c \in Digits |->
  CASE c = "0" -> 0 [] c = "1" -> 1 [] c = "2" -> 2 [] c = "3" -> 3
    [] c = "4" -> 4 [] c = "5" -> 5 [] c = "6" -> 6 [] c = "7" -> 7
    [] c = "8" -> 8 [] c = "9" -> 9]
DigitChar == <<"0", "1", "2", "3", "4", "5", "6", "7", "8", "9">>

NaN == [nan |-> TRUE, val |-> 0]
Num(v) == [nan |-> FALSE, val |-> v]

RECURSIVE SkipWhite(_)
SkipWhite(s) == IF s # <<>> /\ Head(s) = " " THEN SkipWhite(Tail(s)) ELSE s

\* the value of the longest prefix of digits of s, continuing from acc
RECURSIVE DigitsValue(_, _)
DigitsValue(s, acc) ==
  IF s # <<>> /\ Head(s) \in Digits
    THEN DigitsValue(Tail(s), acc * 10 + DigitVal[Head(s)])
    ELSE acc

\* parseInt(s, 10): leading white space, an optional sign, then digits; what
\* follows the digits is ignored; NaN when there is no digit
parseInt(s) ==
  LET t == SkipWhite(s)
      neg == t # <<>> /\ Head(t) = "-"
      u == IF t # <<>> /\ Head(t) \in {"-", "+"} THEN Tail(t) ELSE t
  IN  IF u = <<>> \/ Head(u) \notin Digits THEN NaN
      ELSE Num(IF neg THEN -DigitsValue(u, 0) ELSE DigitsValue(u, 0))

\* String(v) for an integer v
RECURSIVE NatString(_)
NatString(v) ==
  IF v < 10 THEN <<DigitChar[v + 1]>>
  ELSE NatString(v \div 10) \o <<DigitChar[(v % 10) + 1]>>
String(v) == IF v < 0 THEN <<"-">> \o NatString(-v) ELSE NatString(v)


-----------------------------------------------------------------------------
(* State *)

VARIABLES
  variant,        \* "tsx" or "jsx": which source file is running
  mounted,        \* the App component is mounted
  bpm,            \* useState: bpm
  bpmInput,       \* useState: bpmInput (jsx: inp), the text of the BPM field
  isPlaying,      \* useState: isPlaying (jsx: on)
  beat,           \* useState: beat
  showInfo,       \* useState: showInfo
  volume,         \* useState: volume, in hundredths (tsx)
  gain,           \* target of masterGain.gain, in hundredths (tsx)
  ctxState,       \* audioCtx.current.state; "none" while no context exists
  resumePending,  \* a resume() promise of the audio context is unsettled
  pendingStarts,  \* start() calls suspended at `await resume()` (tsx)
  timers,         \* the armed setInterval timers of the page
  iv,             \* tsx: the id the useInterval cleanup closes over; jsx: iv.current
  synthCalls,     \* calls of createHeartbeatSound since mount
  synthTime,      \* the time argument of the last call
  dimW,           \* EKG: dimensions.width (tsx)
  off,            \* EKG: off.current (tsx)
  anim,           \* EKG: anim.current, 0 for null (tsx)
  frames,         \* the pending requestAnimationFrame callbacks
  gapQ,           \* quanta since the last beat of this playing session, counted
                  \* up to MaxGapQ
  beatBpm,        \* bpm at the last beat of this playing session, 0 outside one
  rearmed,        \* a timer was armed after the last beat of this session
  drawn,          \* display refreshes that scrolled the EKG since the last beat
  probe,          \* the arguments and the result of a function applied on its own
  sampleRate,     \* the sample rate of the audio hardware: audioCtx.sampleRate
  cachedNoiseBuffer,  \* module variable of heartbeat.tsx, NoBuffer for null
  cachedSampleRate,   \* module variable of heartbeat.tsx
  connected,      \* the per-beat audio nodes that are connected in the graph
  sources,        \* the started sources whose onended callback has yet to run
  unlockers,      \* the unlock listeners on document.body, each by the audio
                  \* context in its closure: "current" for the mounted
                  \* instance's, "earlier" for that of an unmounted instance
  orphanStarts,   \* start() calls of an unmounted instance whose resume() is
                  \* being resolved
  lateCalls       \* calls of createHeartbeatSound made for an unmounted instance
                  \* since it was unmounted

appVars == <<bpm, bpmInput, isPlaying, beat, showInfo, volume>>
soundVars == <<cachedNoiseBuffer, cachedSampleRate, connected, sources>>
audioVars == <<gain, ctxState, resumePending, pendingStarts, synthCalls, synthTime,
               soundVars>>
timerVars == <<timers, iv>>
ekgVars == <<dimW, off, anim, frames>>
gapVars == <<gapQ, beatBpm, rearmed, drawn>>
pageVars == <<unlockers, orphanStarts, lateCalls>>
vars == <<variant, mounted, appVars, audioVars, timerVars, ekgVars, gapVars,
          probe, sampleRate, pageVars>>

-----------------------------------------------------------------------------
(* The beat interval and the timers *)

NullDelay == [n |-> 0, d |-> 0]

\* const delay = isPlaying ? (60 / bpm) * 1000 : null
Delay(playing, b) ==
  IF playing THEN FracMul(Frac(60, b), Frac(1000, 1)) ELSE NullDelay

\* the smallest id >= 1 that is not in use
FreshId(used) == CHOOSE i \in 1..(Cardinality(used) + 1) : i \notin used

TimerIds(ts) == {t.id : t \in ts}

\* setInterval(cb, delay): the timers afterwards; the new timer's id is
\* FreshId(TimerIds(ts))
SetInterval(ts, cb, delay) ==
  ts \cup {[id |-> FreshId(TimerIds(ts)), cb |-> cb, n |-> delay.n,
            d |-> delay.d, elapsed |-> 0]}

\* a clearInterval that clears nothing
ClearNothing(ts, id) == ts

ClearInterval(ts, id) == {t \in ts : t.id # id}

\* a dependency list that only tells playing from stopped
UseIntervalDepsOnPlaying(oldDelay, newDelay) ==
  (oldDelay = NullDelay) # (newDelay = NullDelay)

\* an effect without a dependency list runs after every render
UseIntervalNoDeps(oldDelay, newDelay) == TRUE

\* useInterval's second effect has the dependency list [delay]
UseIntervalDepsChanged(oldDelay, newDelay) == oldDelay # newDelay

\* an effect that returns no cleanup
UseIntervalNoCleanup(ts, oldDelay, id) == ts

\* the cleanup of useInterval's second effect: () => clearInterval(id); an
\* effect that returned early (delay === null) registered no cleanup
UseIntervalCleanup(ts, oldDelay, id) ==
  IF oldDelay = NullDelay THEN ts ELSE ClearInterval(ts, id)

\* useInterval's second effect, run on the commit that takes the state from
\* (isPlaying, bpm) to (p2, b2)
UseIntervalEffect(b2, p2) ==
  LET oldDelay == Delay(isPlaying, bpm)
      newDelay == Delay(p2, b2)
      cleaned == UseIntervalCleanup(timers, oldDelay, iv)
  IN  IF ~UseIntervalDepsChanged(oldDelay, newDelay)
        THEN UNCHANGED <<timers, iv>>
        ELSE IF newDelay = NullDelay
          THEN /\ timers' = cleaned
               /\ iv' = 0
          ELSE /\ timers' = SetInterval(cleaned, "tick", newDelay)
               /\ iv' = FreshId(TimerIds(cleaned))

\* heartbeat.jsx: useEffect(() => { if (on) { if (iv.current) clearInterval(
\* iv.current); iv.current = setInterval(..., (60 / bpm) * 1000) } }, [bpm, on]),
\* run on the commit from (ts, id, on = p1, bpm) to (p2, b2)
JsxRearmEffect(ts, id, p1, b2, p2) ==
  IF (b2 # bpm \/ p2 # p1) /\ p2
    THEN LET cleaned == IF id # 0 THEN ClearInterval(ts, id) ELSE ts
         IN  [timers |-> SetInterval(cleaned, "effect", Delay(TRUE, b2)),
              iv |-> FreshId(TimerIds(cleaned))]
    ELSE [timers |-> ts, iv |-> id]

-----------------------------------------------------------------------------
(* The EKG canvas of heartbeat.tsx *)

\* a waveform height: base - amp * Math.sin(arg * Math.PI); the sine is kept
\* as a term, amp = 0 where there is none
Level(base) == [base |-> base, amp |-> 0, arg |-> Frac(0, 1)]
Wave(base, amp, arg) == [base |-> base, amp |-> amp, arg |-> arg]

\* a phase that does not wrap at the beat width
PhaseNoWrap(x, offset, bw) == FracDiv(FracAdd(x, offset), bw)

\* const t = ((x + offset) % bw) / bw
Phase(x, offset, bw) == FracDiv(FracMod(FracAdd(x, offset), bw), bw)

\* a QRS downstroke of 40 instead of 46
QrsFallShallow(t, mid) ==
  FracSub(FracAdd(mid, Frac(9, 1)),
          FracMul(FracDiv(FracSub(t, Frac(24, 100)), Frac(4, 100)), Frac(40, 1)))

\* mid + 9 - ((t - 0.24) / 0.04) * 46
QrsFall(t, mid) ==
  FracSub(FracAdd(mid, Frac(9, 1)),
          FracMul(FracDiv(FracSub(t, Frac(24, 100)), Frac(4, 100)), Frac(46, 1)))

\* getEKGY(x, offset, bw, mid), the same in both source files
getEKGY(x, offset, bw, mid) ==
  LET t == Phase(x, offset, bw)
      In(lo, hi) == FracLess(Frac(lo, 100), t) /\ FracLess(t, Frac(hi, 100))
  IN  IF In(10, 18)
        THEN Wave(mid, 6, FracDiv(FracSub(t, Frac(10, 100)), Frac(8, 100)))
      ELSE IF In(22, 24)
        THEN Level(FracAdd(mid, FracMul(FracDiv(FracSub(t, Frac(22, 100)),
                                                Frac(2, 100)), Frac(9, 1))))
      ELSE IF In(24, 28)
        THEN Level(QrsFall(t, mid))
      ELSE IF In(28, 32)
        THEN Level(FracAdd(FracSub(mid, Frac(37, 1)),
                           FracMul(FracDiv(FracSub(t, Frac(28, 100)),
                                           Frac(4, 100)), Frac(48, 1))))
      ELSE IF In(32, 34)
        THEN Level(FracSub(FracAdd(mid, Frac(11, 1)),
                           FracMul(FracDiv(FracSub(t, Frac(32, 100)),
                                           Frac(2, 100)), Frac(11, 1))))
      ELSE IF In(40, 52)
        THEN Wave(mid, 10, FracDiv(FracSub(t, Frac(40, 100)), Frac(12, 100)))
      ELSE Level(mid)

FrameIds(fs) == {f.id : f \in fs}

\* const bw = (60 / bpm) * 120
BeatWidth(b) == FracMul(Frac(60, b), Frac(120, 1))

\* a scroll step of one pixel
AdvanceOffsetByOne(o, b) == FracMod(FracAdd(o, Frac(1, 1)), BeatWidth(b))

\* off.current = (off.current + 1.5) % bw
AdvanceOffset(o, b) == FracMod(FracAdd(o, Frac(3, 2)), BeatWidth(b))

CancelAnimationFrame(fs, id) == {f \in fs : f.id # id}

\* an animation effect that returns no cleanup
EkgNoCleanup(fs, w) == fs

\* the cleanup of the animation effect: if (anim.current) cancelAnimationFrame(
\* anim.current); an effect that returned early registered no cleanup
EkgCleanup(fs, w) ==
  IF w # 0 /\ anim # 0 THEN CancelAnimationFrame(fs, anim) ELSE fs

\* a draw() that scrolls the trace whether playing or not
DrawScrollsIdle(fs, b, p) ==
  /\ off' = AdvanceOffset(off, b)
  /\ IF ~p
       THEN anim' = anim /\ frames' = fs
       ELSE /\ anim' = FreshId(FrameIds(fs))
            /\ frames' = fs \cup {[id |-> FreshId(FrameIds(fs)), bpm |-> b]}

\* draw() with bpm b and isPlaying p in its closure, the pending frames being fs
Draw(fs, b, p) ==
  IF ~p
    THEN UNCHANGED <<off, anim>> /\ frames' = fs
    ELSE /\ off' = AdvanceOffset(off, b)
         /\ anim' = FreshId(FrameIds(fs))
         /\ frames' = fs \cup {[id |-> FreshId(FrameIds(fs)), bpm |-> b]}

\* the animation effect of EKG, dependencies [bpm, isPlaying, dimensions], on the
\* commit from (bpm, isPlaying, dimW) to (b2, p2, w2); resized: dimensions was
\* set (to a new object, which always differs from the old one)
EkgEffect(b2, p2, w2, resized) ==
  IF variant # "tsx" \/ ~(b2 # bpm \/ p2 # isPlaying \/ resized)
    THEN UNCHANGED <<off, anim, frames>>
    ELSE IF w2 = 0
      THEN UNCHANGED <<off, anim>> /\ frames' = EkgCleanup(frames, dimW)
      ELSE Draw(EkgCleanup(frames, dimW), b2, p2)

-----------------------------------------------------------------------------
(* The React commit that follows a change of state *)

\* the timer effects of the commit from (isPlaying, bpm) to (p2, b2); ts and id
\* are the timers and iv.current as the handler of heartbeat.jsx left them
TimerCommit(ts, id, b2, p2) ==
  IF variant = "tsx"
    THEN UseIntervalEffect(b2, p2)
    ELSE LET r == JsxRearmEffect(ts, id, isPlaying, b2, p2)
         IN  timers' = r.timers /\ iv' = r.iv

\* re-render with bpm = b2, isPlaying = p2, dimensions.width = w2, then the
\* effects whose dependencies changed
Commit(ts, id, b2, p2, w2, resized) ==
  /\ bpm' = b2
  /\ isPlaying' = p2
  /\ dimW' = w2
  /\ TimerCommit(ts, id, b2, p2)
  /\ EkgEffect(b2, p2, w2, resized)
  /\ rearmed' = IF ~p2 THEN FALSE
                ELSE IF isPlaying /\ timers' # timers THEN TRUE ELSE rearmed

\* a commit in which only bpm may have changed
CommitBpm(b2) == Commit(timers, iv, b2, isPlaying, dimW, FALSE)

-----------------------------------------------------------------------------
(* The BPM controls *)

\* a range check that forgets the upper bound
InRangeNoUpper(v) == v >= MIN_BPM

InRange(v) == v >= MIN_BPM /\ v <= MAX_BPM

\* an edit that takes the limits of the range as out of range
InputChangeBpmStrict(s, b) ==
  LET v == parseInt(s)
  IN  IF ~v.nan /\ v.val > MIN_BPM /\ v.val < MAX_BPM THEN v.val ELSE b

\* an edit that clamps what it parses instead of ignoring it
InputChangeBpmClamped(s, b) ==
  LET v == parseInt(s)
  IN  IF v.nan THEN b ELSE Max(MIN_BPM, Min(MAX_BPM, v.val))

\* handleInputChange: const n = parseInt(e.target.value, 10);
\* if (!Number.isNaN(n) && n >= MIN_BPM && n <= MAX_BPM) setBpm(n)
InputChangeBpm(s, b) ==
  LET v == parseInt(s)
  IN  IF ~v.nan /\ InRange(v.val) THEN v.val ELSE b

\* a blur that leaves an unparsable text alone
InputBlurBpmKeepsNaN(s, b) ==
  LET v == parseInt(s)
  IN  IF v.nan THEN b
      ELSE IF v.val < MIN_BPM THEN MIN_BPM
      ELSE IF v.val > MAX_BPM THEN MAX_BPM
      ELSE b

\* handleInputBlur: the bpm it leaves
InputBlurBpm(s, b) ==
  LET v == parseInt(s)
  IN  IF v.nan \/ v.val < MIN_BPM THEN MIN_BPM
      ELSE IF v.val > MAX_BPM THEN MAX_BPM
      ELSE b

\* handleInputBlur: the text it leaves
InputBlurText(s) ==
  LET v == parseInt(s)
  IN  IF v.nan \/ v.val < MIN_BPM THEN String(MIN_BPM)
      ELSE IF v.val > MAX_BPM THEN String(MAX_BPM)
      ELSE s

\* a press, touch or key stroke on the page is dispatched to document.body's
\* touchend / mousedown / keydown listeners before the control it is aimed at
\* gets its click or change event: a handler of a control runs once the
\* unlock listeners have run
GestureHandled == unlockers = {}

HandleInputChange(s) ==
  /\ mounted
  /\ GestureHandled
  /\ bpmInput' = s
  /\ CommitBpm(InputChangeBpm(s, bpm))
  /\ UNCHANGED <<variant, sampleRate, probe, pageVars, mounted, beat, showInfo, volume, audioVars,
                 gapQ, beatBpm, drawn>>

HandleInputBlur ==
  /\ mounted
  /\ bpmInput' = InputBlurText(bpmInput)
  /\ CommitBpm(InputBlurBpm(bpmInput, bpm))
  /\ UNCHANGED <<variant, sampleRate, probe, pageVars, mounted, beat, showInfo, volume, audioVars,
                 gapQ, beatBpm, drawn>>

\* handleSliderChange: the range input only reports whole values in [min, max]
HandleSliderChange(v) ==
  /\ mounted
  /\ GestureHandled
  /\ v \in MIN_BPM..MAX_BPM
  /\ bpmInput' = String(v)
  /\ CommitBpm(v)
  /\ UNCHANGED <<variant, sampleRate, probe, pageVars, mounted, beat, showInfo, volume, audioVars,
                 gapQ, beatBpm, drawn>>

\* onClick of a preset button
PresetClick(p) ==
  /\ mounted
  /\ GestureHandled
  /\ p \in BPM_PRESETS
  /\ bpmInput' = String(p)
  /\ CommitBpm(p)
  /\ UNCHANGED <<variant, sampleRate, probe, pageVars, mounted, beat, showInfo, volume, audioVars,
                 gapQ, beatBpm, drawn>>

-----------------------------------------------------------------------------
(* What the render derives from the state (heartbeat.tsx) *)

\* a throttle that rounds the divisor down
VisualBeatFloor(bt, b) ==
  LET beatsPerSec == Frac(b, 60)
  IN  IF FracLess(Frac(MAX_VISUAL_FLASHES_PER_SEC, 1), beatsPerSec)
        THEN bt \div FracFloor(FracMul(beatsPerSec,
                                       Frac(1, MAX_VISUAL_FLASHES_PER_SEC)))
        ELSE bt

\* const beatsPerSec = bpm / 60; const visualBeat = beatsPerSec > 3
\*   ? Math.floor(beat / Math.ceil(beatsPerSec / 3)) : beat
VisualBeat(bt, b) ==
  LET beatsPerSec == Frac(b, 60)
  IN  IF FracLess(Frac(MAX_VISUAL_FLASHES_PER_SEC, 1), beatsPerSec)
        THEN bt \div FracCeil(FracMul(beatsPerSec,
                                      Frac(1, MAX_VISUAL_FLASHES_PER_SEC)))
        ELSE bt

\* a zone table whose upper limits are exclusive
getBpmZoneExclusive(b) ==
  IF b < 60 THEN [label |-> "Bradycardia", color |-> "#5b9bd5"]
  ELSE IF b < 100 THEN [label |-> "Resting", color |-> "#6abf69"]
  ELSE IF b < 140 THEN [label |-> "Moderate", color |-> "#d4a843"]
  ELSE IF b < 170 THEN [label |-> "Vigorous", color |-> "#d97a3e"]
  ELSE [label |-> "Maximum", color |-> "#d94040"]

\* getBpmZone(bpm), the same in both source files
getBpmZone(b) ==
  IF b < 60 THEN [label |-> "Bradycardia", color |-> "#5b9bd5"]
  ELSE IF b <= 100 THEN [label |-> "Resting", color |-> "#6abf69"]
  ELSE IF b <= 140 THEN [label |-> "Moderate", color |-> "#d4a843"]
  ELSE IF b <= 170 THEN [label |-> "Vigorous", color |-> "#d97a3e"]
  ELSE [label |-> "Maximum", color |-> "#d94040"]

\* <HeartSVG beat={beat} />, and in HeartSVG the ripple ring has key={beat}: the
\* ring is replaced, and its animation restarts, whenever this value changes
RippleKey(bt) == bt

\* Math.sin(x * Math.PI) for x a whole number of halves: 0, 1, 0, -1, ...
SinPi(x) ==
  LET h == ((2 * x.n) \div x.d) % 4
  IN  CASE h = 0 -> 0 [] h = 1 -> 1 [] h = 2 -> 0 [] h = 3 -> -1

\* the beat count the pulse is computed from: visualBeat in heartbeat.tsx, beat
\* in heartbeat.jsx
PulseBeat(v, bt, b) == IF v = "tsx" THEN VisualBeat(bt, b) ELSE bt

\* const scale = isPlaying && !prefersReducedMotion
\*   ? 1 + Math.sin(visualBeat * Math.PI) * 0.12 : 1
HeartScale(vb, playing, reduced) ==
  IF playing /\ ~reduced
    THEN FracAdd(Frac(1, 1), FracMul(Frac(SinPi(Frac(vb, 1)), 1), Frac(12, 100)))
    ELSE Frac(1, 1)

\* const glow = isPlaying && !prefersReducedMotion
\*   ? 14 + Math.sin(visualBeat * Math.PI) * 10 : 4
HeartGlow(vb, playing, reduced) ==
  IF playing /\ ~reduced
    THEN FracAdd(Frac(14, 1), FracMul(Frac(SinPi(Frac(vb, 1)), 1), Frac(10, 1)))
    ELSE Frac(4, 1)

-----------------------------------------------------------------------------
(* The synthesizer *)

\* an S2 that sounds for 150 ms
AudioLongS2 ==
  [S1_ATTACK |-> 8, S1_DECAY |-> 140, S1_DURATION |-> 160,
   SUB_ATTACK |-> 12, SUB_DECAY |-> 110, SUB_DURATION |-> 130,
   NOISE_DURATION |-> 20, NOISE_DECAY |-> 30,
   S2_DELAY |-> 130, S2_ATTACK |-> 8, S2_DECAY |-> 100, S2_DURATION |-> 150]

\* the times of AUDIO, in milliseconds; heartbeat.jsx has the same values as
\* literals
AUDIO ==
  [S1_ATTACK |-> 8, S1_DECAY |-> 140, S1_DURATION |-> 160,
   SUB_ATTACK |-> 12, SUB_DECAY |-> 110, SUB_DURATION |-> 130,
   NOISE_DURATION |-> 20, NOISE_DECAY |-> 30,
   S2_DELAY |-> 130, S2_ATTACK |-> 8, S2_DECAY |-> 100, S2_DURATION |-> 120]

\* one scheduling call on a node or on one of its parameters, at a time of the
\* audio clock in milliseconds
Ev(node, op, at) == [node |-> node, op |-> op, at |-> at]

\* an S2 that starts when S1 ends
S2StartAfterS1(time) == time + AUDIO.S1_DURATION

\* time + AUDIO.S2_DELAY
S2Start(time) == time + AUDIO.S2_DELAY

\* the scheduling calls of createHeartbeatSound(audioCtx, masterGain, time);
\* heartbeat.jsx also sets the gain of its per-beat master node
createHeartbeatSound(v, time) ==
  { Ev("osc1.frequency", "setValueAtTime", time),
    Ev("osc1.frequency", "exponentialRampToValueAtTime", time + AUDIO.S1_DECAY),
    Ev("g1.gain", "setValueAtTime", time),
    Ev("g1.gain", "linearRampToValueAtTime", time + AUDIO.S1_ATTACK),
    Ev("g1.gain", "exponentialRampToValueAtTime", time + AUDIO.S1_DECAY),
    Ev("osc1", "start", time),
    Ev("osc1", "stop", time + AUDIO.S1_DURATION),
    Ev("oSub.frequency", "setValueAtTime", time),
    Ev("gSub.gain", "setValueAtTime", time),
    Ev("gSub.gain", "linearRampToValueAtTime", time + AUDIO.SUB_ATTACK),
    Ev("gSub.gain", "exponentialRampToValueAtTime", time + AUDIO.SUB_DECAY),
    Ev("oSub", "start", time),
    Ev("oSub", "stop", time + AUDIO.SUB_DURATION),
    Ev("ng.gain", "setValueAtTime", time),
    Ev("ng.gain", "exponentialRampToValueAtTime", time + AUDIO.NOISE_DECAY),
    Ev("n", "start", time),
    Ev("n", "stop", time + AUDIO.NOISE_DECAY),
    Ev("o2.frequency", "setValueAtTime", S2Start(time)),
    Ev("o2.frequency", "exponentialRampToValueAtTime",
       S2Start(time) + AUDIO.S2_DECAY),
    Ev("g2.gain", "setValueAtTime", S2Start(time)),
    Ev("g2.gain", "linearRampToValueAtTime", S2Start(time) + AUDIO.S2_ATTACK),
    Ev("g2.gain", "exponentialRampToValueAtTime", S2Start(time) + AUDIO.S2_DECAY),
    Ev("o2", "start", S2Start(time)),
    Ev("o2", "stop", S2Start(time) + AUDIO.S2_DURATION) }
  \cup (IF v = "jsx" THEN {Ev("master.gain", "setValueAtTime", time)} ELSE {})

\* the nodes one call creates and connects; heartbeat.jsx adds a master gain
PerBeatNodes(v) ==
  {"osc1", "g1", "oSub", "gSub", "n", "nf", "ng", "o2", "g2"}
    \cup (IF v = "jsx" THEN {"master"} ELSE {})

\* the sources one call starts
PerBeatSources == {"osc1", "oSub", "n", "o2"}

\* an ended callback of the noise source that leaves the filter connected
OnEndedKeepsFilter(src) ==
  CASE src = "osc1" -> {"osc1", "g1"}
    [] src = "oSub" -> {"oSub", "gSub"}
    [] src = "n" -> {"n", "ng"}
    [] src = "o2" -> {"o2", "g2"}

\* the nodes the onended callback of a source disconnects (heartbeat.tsx)
OnEnded(src) ==
  CASE src = "osc1" -> {"osc1", "g1"}
    [] src = "oSub" -> {"oSub", "gSub"}
    [] src = "n" -> {"n", "nf", "ng"}
    [] src = "o2" -> {"o2", "g2"}

\* the time from the time argument of the call to the stop of a source
StopAfter(src) ==
  (CHOOSE e \in createHeartbeatSound("tsx", 0) : e.node = src /\ e.op = "stop").at

\* cachedNoiseBuffer = null
NoBuffer == [id |-> 0, rate |-> 0]

\* the sample rate of the audio hardware when the page loads
InitialSampleRates == {48000}
SampleRates == {44100, 48000}

\* getNoiseBuffer(audioCtx) with audioCtx.sampleRate = rate: the module
\* variables afterwards; the buffer returned is the cache afterwards. A new
\* buffer is a different object from the one it replaces
getNoiseBuffer(cache, cachedRate, rate) ==
  IF cache = NoBuffer \/ cachedRate # rate
    THEN [cache |-> [id |-> IF cache.id = 1 THEN 2 ELSE 1, rate |-> rate],
          rate |-> rate]
    ELSE [cache |-> cache, rate |-> cachedRate]

-----------------------------------------------------------------------------
(* The state after mount *)

InitialBpm(v) == IF v = "tsx" THEN TSX_INITIAL_BPM ELSE JSX_INITIAL_BPM

\* heartbeat.tsx creates the audio context in its mount effect, and the browser's
\* autoplay policy decides whether it starts suspended; heartbeat.jsx creates it
\* in the first start()
InitialCtxStates(v) == IF v = "tsx" THEN {"suspended", "running"} ELSE {"none"}

\* unlockAudioContext(ctx), called by the mount effect of heartbeat.tsx: the
\* listeners it adds to document.body, none unless the context is suspended
UnlockAudioContext(v, state) ==
  IF v = "tsx" /\ state = "suspended" THEN {"current"} ELSE {}

\* the state of a freshly mounted App of source file v, once the BPM control
\* has been set to b0 (b0 = InitialBpm(v): untouched)
MountedState(v, b0) ==
  /\ variant = v
  /\ mounted = TRUE
  /\ bpm = b0
  /\ bpmInput = String(b0)
  /\ isPlaying = FALSE
  /\ beat = 0
  /\ showInfo = FALSE
  /\ volume = INITIAL_VOLUME
  /\ gain = INITIAL_VOLUME
  /\ ctxState \in InitialCtxStates(v)
  /\ resumePending = FALSE
  /\ pendingStarts = 0
  /\ timers = {}
  /\ iv = 0
  /\ synthCalls = 0
  /\ synthTime = "none"
  /\ sampleRate \in InitialSampleRates
  /\ cachedNoiseBuffer = NoBuffer
  /\ cachedSampleRate = 0
  /\ connected = {}
  /\ sources = {}
  /\ dimW = 0
  /\ off = Frac(0, 1)
  /\ anim = 0
  /\ frames = {}
  /\ gapQ = 0
  /\ beatBpm = 0
  /\ rearmed = FALSE
  /\ drawn = 0
  /\ unlockers = UnlockAudioContext(v, ctxState)
  /\ orphanStarts = 0
  /\ lateCalls = 0

\* no function is being applied on its own
NoProbe == [fn |-> "none"]

Init ==
  /\ \E v \in {"tsx", "jsx"} : MountedState(v, InitialBpm(v))
  /\ probe = NoProbe

-----------------------------------------------------------------------------
(* Beats *)

\* a beat counted twice
SetBeatTwice(p) == p + 2

\* setBeat((p) => p + 1)
SetBeat(p) == p + 1

\* createHeartbeatSound(audioCtx.current, masterGain.current,
\* audioCtx.current.currentTime), k times in one task
Synthesize(k) ==
  /\ synthCalls' = synthCalls + k
  /\ synthTime' = IF k > 0 THEN "currentTime" ELSE synthTime
  /\ connected' = connected \cup
       {[call |-> c, node |-> n] :
          c \in (synthCalls + 1)..(synthCalls + k), n \in PerBeatNodes(variant)}
  /\ IF variant = "tsx" /\ k > 0
       THEN LET r == getNoiseBuffer(cachedNoiseBuffer, cachedSampleRate,
                                    sampleRate)
            IN  /\ cachedNoiseBuffer' = r.cache
                /\ cachedSampleRate' = r.rate
                /\ sources' = sources \cup
                     {[call |-> c, src |-> s] :
                        c \in (synthCalls + 1)..(synthCalls + k),
                        s \in PerBeatSources}
       ELSE UNCHANGED <<cachedNoiseBuffer, cachedSampleRate, sources>>

RECURSIVE SetBeatTimes(_, _)
SetBeatTimes(p, k) == IF k = 0 THEN p ELSE SetBeatTimes(SetBeat(p), k - 1)

\* the part of start() after the audio context is running, for k start() calls
\* that continue in the same task: the first beat at once, then
\* setIsPlaying(true)
StartContinuation(k) ==
  /\ Synthesize(k)
  /\ beat' = SetBeatTimes(beat, k)
  /\ Commit(timers, iv, bpm, TRUE, dimW, FALSE)
  /\ gapQ' = 0
  /\ beatBpm' = bpm
  /\ drawn' = 0

\* heartbeat.tsx start(), bound to the button while isPlaying is false
TsxStart ==
  /\ variant = "tsx"
  /\ mounted
  /\ GestureHandled
  /\ ~isPlaying
  /\ beat + pendingStarts < MaxBeat
  /\ IF ctxState = "suspended"
       THEN /\ pendingStarts < MaxPending
            /\ pendingStarts' = pendingStarts + 1
            /\ resumePending' = TRUE
            /\ UNCHANGED <<appVars, gain, ctxState, synthCalls, synthTime,
                           soundVars,
                           timerVars, ekgVars, gapVars>>
       ELSE /\ StartContinuation(1)
            /\ UNCHANGED <<bpmInput, showInfo, volume, gain, ctxState,
                           resumePending, pendingStarts>>
  /\ UNCHANGED <<variant, sampleRate, probe, pageVars, mounted>>

\* the audio context starts running: every pending resume() promise is resolved
\* in one task, and the start() calls that await one continue in it
ResumeResolved ==
  /\ resumePending
  /\ ctxState = "suspended"
  /\ ctxState' = "running"
  /\ resumePending' = FALSE
  /\ pendingStarts' = 0
  /\ IF pendingStarts > 0
       THEN StartContinuation(pendingStarts)
       ELSE UNCHANGED <<bpm, isPlaying, beat, synthCalls, synthTime, soundVars,
                        timerVars,
                        ekgVars, gapVars>>
  /\ UNCHANGED <<variant, sampleRate, probe, pageVars, mounted, bpmInput, showInfo, volume, gain>>

\* heartbeat.tsx stop(), bound to the button while isPlaying is true
TsxStop ==
  /\ variant = "tsx"
  /\ mounted
  /\ GestureHandled
  /\ isPlaying
  /\ Commit(timers, iv, bpm, FALSE, dimW, FALSE)
  /\ gapQ' = 0
  /\ beatBpm' = 0
  /\ drawn' = 0
  /\ UNCHANGED <<variant, sampleRate, probe, pageVars, mounted, bpmInput, beat, showInfo, volume, audioVars>>

\* heartbeat.jsx start()
JsxStart ==
  /\ variant = "jsx"
  /\ mounted
  /\ ~isPlaying
  /\ beat < MaxBeat
  /\ ctxState' \in (IF ctxState = "none" THEN {"suspended", "running"}
                                        ELSE {ctxState})
  /\ resumePending' = (ctxState' = "suspended")
  /\ Synthesize(1)
  /\ beat' = SetBeat(beat)
  /\ LET cleared == IF iv # 0 THEN ClearInterval(timers, iv) ELSE timers
     IN  Commit(SetInterval(cleared, "b", Delay(TRUE, bpm)),
                FreshId(TimerIds(cleared)), bpm, TRUE, dimW, FALSE)
  /\ gapQ' = 0
  /\ beatBpm' = bpm
  /\ drawn' = 0
  /\ UNCHANGED <<variant, sampleRate, probe, pageVars, mounted, bpmInput, showInfo, volume, gain,
                 pendingStarts>>

\* heartbeat.jsx stop()
JsxStop ==
  /\ variant = "jsx"
  /\ mounted
  /\ isPlaying
  /\ Commit(IF iv # 0 THEN ClearInterval(timers, iv) ELSE timers, 0,
            bpm, FALSE, dimW, FALSE)
  /\ gapQ' = 0
  /\ beatBpm' = 0
  /\ drawn' = 0
  /\ UNCHANGED <<variant, sampleRate, probe, pageVars, mounted, bpmInput, beat, showInfo, volume, audioVars>>

\* a timer is due when its delay ends within the next quantum
Due(t) == (t.elapsed + 1) * Quantum * t.d >= t.n

\* the callback of the timer runs: heartbeat.tsx "tick" calls
\* savedCallback.current(), heartbeat.jsx "b" is start()'s closure and "effect"
\* the re-arm effect's; each needs the audio context the refs hold
Tick(t) ==
  /\ t \in timers
  /\ beat < MaxBeat
  /\ timers' = (timers \ {t}) \cup {[t EXCEPT !.elapsed = 0]}
  /\ IF ctxState # "none"
       THEN /\ Synthesize(1)
            /\ beat' = IF mounted THEN SetBeat(beat) ELSE beat
       ELSE UNCHANGED <<synthCalls, synthTime, soundVars, beat>>
  /\ gapQ' = 0
  /\ beatBpm' = bpm
  /\ drawn' = 0
  /\ rearmed' = FALSE
  /\ UNCHANGED <<variant, sampleRate, probe, pageVars, mounted, bpm, bpmInput, isPlaying, showInfo, volume,
                 gain, ctxState, resumePending, pendingStarts, iv, ekgVars>>

\* a due timer fires
TimerFire(t) == Due(t) /\ Tick(t)

\* one quantum passes in which no task runs
AdvanceTime ==
  /\ \A t \in timers : ~Due(t)
  /\ timers' = {[t EXCEPT !.elapsed = t.elapsed + 1] : t \in timers}
  /\ gapQ' = IF beatBpm # 0 THEN Min(gapQ + 1, MaxGapQ) ELSE gapQ
  /\ UNCHANGED <<variant, sampleRate, probe, pageVars, mounted, appVars, audioVars, iv, ekgVars, beatBpm,
                 rearmed, drawn>>

-----------------------------------------------------------------------------
(* The EKG's callbacks (heartbeat.tsx) *)

\* the ResizeObserver callback: setDimensions({ width, height }), a new object
Resize(w) ==
  /\ variant = "tsx"
  /\ mounted
  /\ Commit(timers, iv, bpm, isPlaying, w, TRUE)
  /\ UNCHANGED <<variant, sampleRate, probe, pageVars, mounted, bpmInput, beat, showInfo, volume, audioVars,
                 gapQ, beatBpm, drawn>>

\* a requested animation frame runs draw(); only a playing draw() requests one,
\* so isPlaying is true in its closure
Frame(f) ==
  /\ f \in frames
  /\ Draw(frames \ {f}, f.bpm, TRUE)
  /\ UNCHANGED <<variant, sampleRate, probe, pageVars, mounted, appVars, audioVars, timerVars, dimW,
                 gapVars>>

-----------------------------------------------------------------------------
(* Volume and the statistics overlay *)

\* onChange of the volume slider, then the effect on [volume]:
\* masterGain.gain.setTargetAtTime(volume, currentTime, 0.02)
VolumeChange(v) ==
  /\ variant = "tsx"
  /\ mounted
  /\ GestureHandled
  /\ v \in 0..100
  /\ volume' = v
  /\ gain' = v
  /\ UNCHANGED <<variant, sampleRate, probe, pageVars, mounted, bpm, bpmInput, isPlaying, beat, showInfo,
                 ctxState, resumePending, pendingStarts, synthCalls, synthTime,
                 soundVars,
                 timerVars, ekgVars, gapVars>>

\* onClick of the info button: setShowInfo(!showInfo); the overlay's click and
\* Escape close it
ToggleInfo ==
  /\ mounted
  /\ GestureHandled
  /\ showInfo' = ~showInfo
  /\ UNCHANGED <<variant, sampleRate, probe, pageVars, mounted, bpm, bpmInput, isPlaying, beat, volume,
                 audioVars, timerVars, ekgVars, gapVars>>

\* a touchend, mousedown or keydown reaches document.body: every unlock
\* listener runs warmUp() on the context of its closure (a silent buffer, then
\* resume(), which a closed context rejects) and removes itself from the three
\* events
Gesture ==
  /\ unlockers # {}
  /\ unlockers' = {}
  /\ resumePending' =
       (resumePending \/ ("current" \in unlockers /\ ctxState = "suspended"))
  /\ UNCHANGED <<variant, sampleRate, probe, orphanStarts, lateCalls, mounted,
                 appVars, gain, ctxState, pendingStarts, synthCalls, synthTime,
                 soundVars, timerVars, ekgVars, gapVars>>

-----------------------------------------------------------------------------
(* The audio graph and the audio hardware (heartbeat.tsx) *)

\* the stop time of a source has passed and its ended event is dispatched:
\* the onended callback disconnects the source and the nodes after it. The
\* events come in the order of the stop times, and a later call has no
\* earlier time argument
SourceEnded(s) ==
  /\ s \in sources
  /\ ctxState = "running"
  /\ \A s2 \in sources :
       /\ s2.call = s.call => StopAfter(s2.src) >= StopAfter(s.src)
       /\ s2.call < s.call => StopAfter(s2.src) > StopAfter(s.src)
  /\ sources' = sources \ {s}
  /\ connected' = connected \ {[call |-> s.call, node |-> n] : n \in OnEnded(s.src)}
  /\ UNCHANGED <<variant, sampleRate, probe, pageVars, mounted, appVars, gain, ctxState,
                 resumePending, pendingStarts, synthCalls, synthTime,
                 cachedNoiseBuffer, cachedSampleRate, timerVars, ekgVars,
                 gapVars>>

\* the audio output device changes while no audio context exists: the next
\* context is created with another sample rate
OutputDeviceChange(r) ==
  /\ ~mounted
  /\ orphanStarts = 0
  /\ r \in SampleRates
  /\ r # sampleRate
  /\ sampleRate' = r
  /\ UNCHANGED <<variant, probe, pageVars, mounted, appVars, audioVars, timerVars,
                 ekgVars, gapVars>>

-----------------------------------------------------------------------------
(* Unmount and remount *)

\* React discards the state and the refs of an unmounted instance: they take
\* the values a new instance starts with; beat and synthCalls stay as the
\* record of what the instance did
Discard ==
  /\ bpm' = InitialBpm(variant)
  /\ bpmInput' = String(InitialBpm(variant))
  /\ isPlaying' = FALSE
  /\ showInfo' = FALSE
  /\ volume' = INITIAL_VOLUME
  /\ gain' = INITIAL_VOLUME
  /\ dimW' = 0
  /\ off' = Frac(0, 1)
  /\ anim' = 0
  /\ gapQ' = 0
  /\ beatBpm' = 0
  /\ drawn' = 0
  /\ rearmed' = FALSE

\* the listeners on document.body once the mount effect's cleanup has run: the
\* cleanup removes none, the context in their closure is now a closed one
UnlockersAfterUnmount(ls) ==
  IF "current" \in ls THEN (ls \ {"current"}) \cup {"earlier"} ELSE ls

\* the cleanups of heartbeat.tsx: clearInterval(id), cancelAnimationFrame,
\* ctx.close() and cachedNoiseBuffer = null; close() releases the graph of the
\* context. A resume() promise that is pending is either rejected or, when the
\* context had begun to start, still resolved afterwards: the start() calls
\* that await it are dropped or continue in LateStart
TsxUnmount ==
  /\ variant = "tsx"
  /\ mounted
  /\ mounted' = FALSE
  /\ timers' = UseIntervalCleanup(timers, Delay(isPlaying, bpm), iv)
  /\ iv' = 0
  /\ frames' = EkgCleanup(frames, dimW)
  /\ ctxState' = "closed"
  /\ resumePending' = FALSE
  /\ pendingStarts' = 0
  /\ orphanStarts' \in {0, pendingStarts}
  /\ unlockers' = UnlockersAfterUnmount(unlockers)
  /\ cachedNoiseBuffer' = NoBuffer
  /\ connected' = {}
  /\ sources' = {}
  /\ Discard
  /\ UNCHANGED <<variant, sampleRate, probe, lateCalls, beat, synthCalls,
                 synthTime, cachedSampleRate>>

\* the resume() promise of a context closed meanwhile is resolved: the start()
\* calls of the unmounted instance continue after their await, each calls
\* createHeartbeatSound with the closed context of its refs (and in it
\* getNoiseBuffer), and setBeat and setIsPlaying do nothing to an unmounted
\* component
LateStart ==
  /\ orphanStarts > 0
  /\ orphanStarts' = 0
  /\ lateCalls' = lateCalls + orphanStarts
  /\ LET r == getNoiseBuffer(cachedNoiseBuffer, cachedSampleRate, sampleRate)
     IN  /\ cachedNoiseBuffer' = r.cache
         /\ cachedSampleRate' = r.rate
  /\ UNCHANGED <<variant, sampleRate, probe, unlockers, mounted, appVars, gain,
                 ctxState, resumePending, pendingStarts, synthCalls, synthTime,
                 connected, sources, timerVars, ekgVars, gapVars>>

\* the cleanup of heartbeat.jsx: if (iv.current) clearInterval(iv.current);
\* if (ctx.current) ctx.current.close()
JsxUnmount ==
  /\ variant = "jsx"
  /\ mounted
  /\ mounted' = FALSE
  /\ timers' = IF iv # 0 THEN ClearInterval(timers, iv) ELSE timers
  /\ iv' = 0
  /\ frames' = frames
  /\ ctxState' = IF ctxState = "none" THEN "none" ELSE "closed"
  /\ resumePending' = FALSE
  /\ connected' = {}
  /\ Discard
  /\ UNCHANGED <<variant, sampleRate, probe, pageVars, pendingStarts, beat, synthCalls,
                 synthTime, cachedNoiseBuffer, cachedSampleRate, sources>>

\* a new instance of App is mounted, once what the old instance left to settle
\* has settled: fresh state and refs; the timers, the frame callbacks and the
\* listeners of the page are what the old instance left
Remount ==
  /\ ~mounted
  /\ orphanStarts = 0
  /\ mounted' = TRUE
  /\ beat' = 0
  /\ synthCalls' = 0
  /\ synthTime' = "none"
  /\ lateCalls' = 0
  /\ ctxState' \in InitialCtxStates(variant)
  /\ unlockers' = unlockers \cup UnlockAudioContext(variant, ctxState')
  /\ UNCHANGED <<variant, sampleRate, probe, orphanStarts, bpm, bpmInput, isPlaying, showInfo,
                 volume, gain, resumePending, pendingStarts, soundVars,
                 timerVars, ekgVars, gapVars>>

-----------------------------------------------------------------------------
(* SpecInput: the BPM controls alone, with every slider position and a wide   *)
(* set of typed texts                                                         *)

InputTexts ==
  { <<>>, <<"5">>, <<"0">>, <<"2", "9">>, <<"3", "0">>, <<"7", "2">>,
    <<"2", "2", "0">>, <<"2", "2", "1">>, <<"9", "9", "9">>,
    <<"a", "b", "c">>, <<" ", "7", "2">>, <<"-", "7", "2">>, <<"+", "7", "2">>,
    <<"7", "2", ".", "9">>, <<"5", "0", "x">>, <<"0", "5", "0">>,
    <<"1", "e", "2">>, <<".", "5">>, <<"-">>, <<"1", "0", "0", "0">> }

NextInput ==
  \/ Gesture
  \/ \E s \in InputTexts : HandleInputChange(s)
  \/ HandleInputBlur
  \/ \E v \in MIN_BPM..MAX_BPM : HandleSliderChange(v)
  \/ \E p \in BPM_PRESETS : PresetClick(p)

SpecInput == Init /\ [][NextInput]_vars

-----------------------------------------------------------------------------
(* Spec: the beat scheduler with its controls, both source files, timed       *)

SliderStops == {30, 220}
TypedTexts == { <<"5">>, <<"7", "2">>, <<"9", "9", "9">> }
VolumeStops == {30, 70}

Next ==
  \/ TsxStart
  \/ TsxStop
  \/ JsxStart
  \/ JsxStop
  \/ ResumeResolved
  \/ \E t \in timers : TimerFire(t)
  \/ AdvanceTime
  \/ \E s \in TypedTexts : HandleInputChange(s)
  \/ HandleInputBlur
  \/ \E v \in SliderStops : HandleSliderChange(v)
  \/ \E p \in BPM_PRESETS : PresetClick(p)
  \/ \E v \in VolumeStops : VolumeChange(v)
  \/ ToggleInfo
  \/ Gesture
  \/ TsxUnmount
  \/ LateStart
  \/ JsxUnmount
  \/ Remount

Spec == Init /\ [][Next]_vars

-----------------------------------------------------------------------------
(* SpecEKG: heartbeat.tsx with the EKG canvas laid out; the BPM control moves  *)
(* between values whose beat width is a multiple of the 1.5 px step            *)

EkgStops == {150, 200}
Widths == {0, 300}

InitEKG ==
  /\ \E b \in EkgStops : MountedState("tsx", b)
  /\ probe = NoProbe

NextEKG ==
  \/ TsxStart
  \/ TsxStop
  \/ ResumeResolved
  \/ \E t \in timers : TimerFire(t)
  \/ AdvanceTime
  \/ \E v \in EkgStops : HandleSliderChange(v)
  \/ \E w \in Widths : Resize(w)
  \/ \E f \in frames : Frame(f)
  \/ Gesture
  \/ TsxUnmount
  \/ LateStart

SpecEKG == InitEKG /\ [][NextEKG]_vars

-----------------------------------------------------------------------------
(* SpecVisual: heartbeat.tsx playing at every BPM of the control               *)

InitVisual ==
  /\ \E b \in MIN_BPM..MAX_BPM : MountedState("tsx", b)
  /\ probe = NoProbe

NextVisual ==
  \/ Gesture
  \/ TsxStart
  \/ TsxStop
  \/ ResumeResolved
  \/ \E t \in timers : TimerFire(t)
  \/ AdvanceTime

SpecVisual == InitVisual /\ [][NextVisual]_vars

-----------------------------------------------------------------------------
(* SpecLive: Spec with time passing and due timers firing                      *)

SpecLive ==
  /\ Init
  /\ [][Next]_vars
  /\ WF_vars(AdvanceTime)
  /\ WF_vars(\E t \in timers : TimerFire(t))

-----------------------------------------------------------------------------
(* SpecEdit: the BPM text field edited and blurred while the scheduler runs,   *)
(* both source files, timed                                                   *)

NextEdit ==
  \/ Gesture
  \/ TsxStart
  \/ TsxStop
  \/ JsxStart
  \/ JsxStop
  \/ ResumeResolved
  \/ \E t \in timers : TimerFire(t)
  \/ AdvanceTime
  \/ \E s \in InputTexts : HandleInputChange(s)
  \/ HandleInputBlur

SpecEdit == Init /\ [][NextEdit]_vars

-----------------------------------------------------------------------------
(* SpecSync: heartbeat.tsx on a 60 Hz display, the BPM set and the EKG canvas   *)
(* laid out while stopped. Time passes one display refresh at a time, and a    *)
(* timer's elapsed field counts refreshes; the beat periods of EkgStops are    *)
(* whole numbers of refreshes (24 and 18)                                      *)

RefreshesPerSecond == 60

\* the delay of timer t has run out at this refresh
Expired(t) == t.elapsed * 1000 * t.d >= RefreshesPerSecond * t.n

\* an expired timer fires
RefreshTimerFire(t) == Expired(t) /\ Tick(t)

\* the display refreshes after 1/60 s: the pending animation-frame callback of
\* the EKG, if there is one, runs draw()
DisplayRefresh ==
  /\ \A t \in timers : ~Expired(t)
  /\ timers' = {[t EXCEPT !.elapsed = t.elapsed + 1] : t \in timers}
  /\ IF frames = {}
       THEN UNCHANGED <<off, anim, frames, drawn>>
       ELSE /\ \E f \in frames : Draw(frames \ {f}, f.bpm, TRUE)
            /\ drawn' = IF beatBpm # 0 THEN drawn + 1 ELSE drawn
  /\ UNCHANGED <<variant, sampleRate, probe, pageVars, mounted, appVars, audioVars, iv, dimW, gapQ, beatBpm,
                 rearmed>>

NextSync ==
  \/ TsxStart
  \/ TsxStop
  \/ ResumeResolved
  \/ \E t \in timers : RefreshTimerFire(t)
  \/ DisplayRefresh
  \/ \E v \in EkgStops : ~isPlaying /\ HandleSliderChange(v)
  \/ \E w \in Widths : ~isPlaying /\ Resize(w)
  \/ Gesture
  \/ TsxUnmount
  \/ LateStart

SpecSync == InitEKG /\ [][NextSync]_vars

-----------------------------------------------------------------------------
(* SpecWave: getEKGY applied on its own, as the draw loop of the EKG applies   *)
(* it: at whole pixels x, for offsets on the 1.5 px grid and beat widths of the *)
(* BPM control (100 px at 72 BPM), then again one beat width further           *)

WaveXMax == 99        \* the pixels plotted are 0..WaveXMax
MaxPeriods == 2       \* a point is followed over this many beat widths

WaveOffsets == {Frac(0, 1), Frac(3, 2), Frac(15, 1)}
WaveWidths == {BeatWidth(b) : b \in {72, 150, 162, 200}}
WaveMids == {Frac(0, 1), Frac(28, 1)}

notPlotted == Level(Frac(0, 1))

InitWave ==
  /\ MountedState("tsx", TSX_INITIAL_BPM)
  /\ \E x \in 0..WaveXMax, o \in WaveOffsets, w \in WaveWidths, m \in WaveMids :
       probe = [fn |-> "getEKGY", x |-> Frac(x, 1), offset |-> o, bw |-> w,
                mid |-> m, plotted |-> FALSE, y |-> notPlotted,
                first |-> notPlotted, periods |-> 0]

\* const y = getEKGY(x, off.current, bw, mid)
PlotPoint ==
  /\ probe.fn = "getEKGY"
  /\ ~probe.plotted
  /\ LET y == getEKGY(probe.x, probe.offset, probe.bw, probe.mid)
     IN  probe' = [probe EXCEPT !.plotted = TRUE, !.y = y, !.first = y]
  /\ UNCHANGED <<variant, sampleRate, pageVars, mounted, appVars, audioVars, timerVars, ekgVars,
                 gapVars>>

\* the same call one beat width to the right
PlotNextPeriod ==
  /\ probe.fn = "getEKGY"
  /\ probe.plotted
  /\ probe.periods < MaxPeriods
  /\ LET x2 == FracAdd(probe.x, probe.bw)
     IN  probe' = [probe EXCEPT
                     !.x = x2,
                     !.y = getEKGY(x2, probe.offset, probe.bw, probe.mid),
                     !.periods = probe.periods + 1]
  /\ UNCHANGED <<variant, sampleRate, pageVars, mounted, appVars, audioVars, timerVars, ekgVars,
                 gapVars>>

NextWave == PlotPoint \/ PlotNextPeriod

SpecWave == InitWave /\ [][NextWave]_vars

-----------------------------------------------------------------------------
(* SpecAudio: heartbeat.tsx with the ended events of its sources and a change *)
(* of the audio hardware between two mounts                                   *)

NextAudio ==
  \/ TsxStart
  \/ TsxStop
  \/ ResumeResolved
  \/ \E t \in timers : TimerFire(t)
  \/ AdvanceTime
  \/ \E s \in sources : SourceEnded(s)
  \/ Gesture
  \/ TsxUnmount
  \/ LateStart
  \/ Remount
  \/ \E r \in SampleRates : OutputDeviceChange(r)

InitAudio ==
  /\ MountedState("tsx", TSX_INITIAL_BPM)
  /\ probe = NoProbe

SpecAudio == InitAudio /\ [][NextAudio]_vars

-----------------------------------------------------------------------------
(* SpecSound: createHeartbeatSound applied on its own at readings of the audio *)
(* clock, for either source file and the BPM at both ends and at its default  *)

SoundClockMax == 1200   \* the audio clock is read up to this many milliseconds
ClockSteps == {273, 370}
SoundBpms == {MIN_BPM, TSX_INITIAL_BPM, MAX_BPM}

InitSound ==
  /\ \E v \in {"tsx", "jsx"}, b \in SoundBpms : MountedState(v, b)
  /\ probe = [fn |-> "createHeartbeatSound", clock |-> 0, called |-> FALSE,
              time |-> 0, schedule |-> {}, first |-> {}]

\* the schedule relative to the time it was made for
Shape(schedule, time) ==
  {[node |-> e.node, op |-> e.op, after |-> e.at - time] : e \in schedule}

\* createHeartbeatSound(audioCtx.current, masterGain.current,
\* audioCtx.current.currentTime)
ProbeSound ==
  /\ probe.fn = "createHeartbeatSound"
  /\ LET sch == createHeartbeatSound(variant, probe.clock)
     IN  probe' = [probe EXCEPT
                     !.called = TRUE,
                     !.time = probe.clock,
                     !.schedule = sch,
                     !.first = IF probe.called THEN probe.first
                               ELSE Shape(sch, probe.clock)]
  /\ UNCHANGED <<variant, sampleRate, pageVars, mounted, appVars, audioVars, timerVars, ekgVars,
                 gapVars>>

\* the audio clock runs on
ProbeClock(dt) ==
  /\ probe.fn = "createHeartbeatSound"
  /\ probe.clock + dt <= SoundClockMax
  /\ probe' = [probe EXCEPT !.clock = probe.clock + dt]
  /\ UNCHANGED <<variant, sampleRate, pageVars, mounted, appVars, audioVars, timerVars, ekgVars,
                 gapVars>>

NextSound ==
  \/ Gesture
  \/ ProbeSound
  \/ \E dt \in ClockSteps : ProbeClock(dt)
  \/ \E v \in {MIN_BPM, MAX_BPM} : ~isPlaying /\ HandleSliderChange(v)

SpecSound == InitSound /\ [][NextSound]_vars

-----------------------------------------------------------------------------
(* The claims *)

\* the interval that ends when timer t fires now: from the last beat to the
\* arming (or last firing) of t in whole quanta, then t's delay
BeatGap(t) ==
  FracAdd(Frac(Max(0, gapQ - t.elapsed) * Quantum, 1), [n |-> t.n, d |-> t.d])

\* the armed timer, where there is exactly one
TheTimer == CHOOSE t \in timers : TRUE

\* a step in which a timer triggers a beat of the playing session
TickStep == isPlaying /\ isPlaying' /\ beat' = beat + 1

FracMax(a, b) == IF FracLeq(a, b) THEN b ELSE a
FracMin(a, b) == IF FracLeq(a, b) THEN a ELSE b

(* C1: in every state reachable by slider moves, text edits, blurs and preset
   clicks, bpm is an integer with 30 <= bpm <= 220. *)
C1_BpmInRange == bpm \in MIN_BPM..MAX_BPM

C1_Witness == bpmInput = <<"9", "9", "9">> /\ bpm = MIN_BPM

(* C2: in heartbeat.tsx a timer is armed exactly when isPlaying is true, and an
   armed timer's period is exactly 60000 / bpm milliseconds for the current
   bpm; a BPM change while stopped arms none. *)
C2_TimerIffPlaying ==
  variant = "tsx" =>
    /\ isPlaying <=> timers # {}
    /\ \A t \in timers : t.n * bpm = 60000 * t.d

C2_Witness ==
  /\ variant = "tsx"
  /\ isPlaying
  /\ bpm = MIN_BPM
  /\ beat >= 2
  /\ \E t \in timers : t.elapsed > 0

(* C3: while the player is stopped and stays stopped (so after a stop and until
   the next start) no beat fires: the synthesizer is not called and the beat
   counter does not change, whatever other action or callback runs. *)
C3_NoBeatWhileStopped ==
  [][(mounted /\ mounted' /\ ~isPlaying /\ ~isPlaying')
       => (beat' = beat /\ synthCalls' = synthCalls)]_vars

C3_Witness ==
  /\ mounted
  /\ ~isPlaying
  /\ beat >= 2
  /\ showInfo
  /\ volume # INITIAL_VOLUME
  /\ bpm = MAX_BPM

(* C4: when bpm changes while playing, the interval between the last beat
   before the change and the first beat after it is at most the larger and at
   least the smaller of the old and the new period. *)
C4_RearmKeepsPhase ==
  [][(TickStep /\ rearmed /\ beatBpm # 0)
       => /\ FracLeq(BeatGap(TheTimer),
                     FracMax(Delay(TRUE, beatBpm), Delay(TRUE, bpm)))
          /\ FracLeq(FracMin(Delay(TRUE, beatBpm), Delay(TRUE, bpm)),
                     BeatGap(TheTimer))]_vars

(* C5: at most one beat timer is armed in every reachable state. *)
C5_AtMostOneTimer == Cardinality(timers) <= 1

C5_Witness ==
  /\ isPlaying
  /\ rearmed
  /\ beat >= 2
  /\ Cardinality(timers) = 1

(* C6: every triggered beat calls the synthesizer once, with the audio clock's
   current time, and adds one to the beat counter: the beat counter equals the
   number of synthesizer calls since mount. *)
C6_BeatCountsSynthCalls ==
  /\ beat = synthCalls
  /\ synthCalls > 0 => synthTime = "currentTime"

C6_Witness == variant = "tsx" /\ isPlaying /\ beat >= 3 /\ synthCalls >= 3

(* C7: while playing with bpm unchanged and no stop or unmount, beats keep
   being triggered: either the player is infinitely often stopped, unmounted
   or at the model's last beat, or infinitely often a beat fires or bpm
   changes. *)
C7_BeatsKeepComing ==
  \/ []<>(~mounted \/ ~isPlaying \/ beat >= MaxBeat)
  \/ []<><<beat' # beat \/ bpm' # bpm>>_vars

C7_Witness == mounted /\ isPlaying /\ beat = MaxBeat /\ bpm = MIN_BPM

(* C8: the beat counter never decreases, and a stop leaves the beat counter and
   the EKG scroll offset exactly as they were. *)
C8_StopKeepsBeatAndOffset ==
  [][/\ mounted' => beat' >= beat
     /\ (isPlaying /\ ~isPlaying' /\ mounted') => (beat' = beat /\ off' = off)
    ]_vars

C8_Witness ==
  /\ ~isPlaying
  /\ mounted
  /\ beat >= 2
  /\ dimW # 0
  /\ off # Frac(0, 1)
  /\ frames = {}

(* C9: for every bpm in [30, 220] the throttled visual beat is
   floor(beat / ceil(bpm / 180)), it advances no more than 3 times per second
   of audio beats (bpm / divisor <= 180 per minute), and for bpm <= 180 it is
   the beat counter itself. *)
C9_VisualBeatThrottled ==
  LET divisor == (bpm + 60 * MAX_VISUAL_FLASHES_PER_SEC - 1)
                   \div (60 * MAX_VISUAL_FLASHES_PER_SEC)
  IN  /\ VisualBeat(beat, bpm) = beat \div divisor
      /\ bpm <= 60 * MAX_VISUAL_FLASHES_PER_SEC * divisor
      /\ bpm <= 180 => VisualBeat(beat, bpm) = beat

C9_Witness == isPlaying /\ bpm = MAX_BPM /\ beat >= 3

(* C10: while playing at a bpm above 180 every visible pulse triggered per
   beat, the ripple ring included, is triggered at most 3 times per second: two
   consecutive restarts of the ring are at least 1000 / 3 ms apart. *)
C10_RippleAtMostThreePerSecond ==
  [][(/\ variant = "tsx"
      /\ TickStep
      /\ bpm > 60 * MAX_VISUAL_FLASHES_PER_SEC
      /\ beatBpm = bpm
      /\ ~rearmed
      /\ beat >= 1
      /\ RippleKey(beat) # RippleKey(beat - 1)
      /\ RippleKey(beat') # RippleKey(beat))
       => FracLeq(Frac(1000, MAX_VISUAL_FLASHES_PER_SEC), BeatGap(TheTimer))
    ]_vars

\* the pixels the EKG trace scrolled since the last beat: 1.5 per draw()
Scrolled == Frac(3 * drawn, 2)

(* C11: while playing at a constant bpm on a 60 Hz display the EKG trace scrolls
   one beat width per beat interval: at every timer beat the trace has scrolled,
   since the previous beat, one beat width give or take the 1.5 px of one
   draw(). *)
C11_EkgScrollsOneBeatWidthPerBeat ==
  [][(/\ variant = "tsx"
      /\ TickStep
      /\ dimW # 0
      /\ beatBpm = bpm
      /\ ~rearmed)
       => /\ FracLeq(BeatWidth(bpm), FracAdd(Scrolled, Frac(3, 2)))
          /\ FracLeq(Scrolled, FracAdd(BeatWidth(bpm), Frac(3, 2)))
    ]_vars

(* C12: while playing without the reduced-motion preference the beat counter
   drives a visible pulse of the heart: among the beat counts the session has
   gone through, at least one gives a scale other than 1 or a glow other than
   14. *)
C12_BeatDrivesPulse ==
  (mounted /\ isPlaying /\ beat >= MaxBeat) =>
    \E k \in 0..beat :
      \/ HeartScale(PulseBeat(variant, k, bpm), TRUE, FALSE) # Frac(1, 1)
      \/ HeartGlow(PulseBeat(variant, k, bpm), TRUE, FALSE) # Frac(14, 1)

(* C13: a blur of the BPM field sets bpm to 30 and the text to "30" when the
   text does not parse or parses below 30, sets bpm to 220 and the text to "220"
   when it parses above 220, and otherwise leaves bpm and the text as they are;
   in every case the component stays mounted, with bpm in range and the playing
   flag and the beat counter untouched. *)
C13_BlurClamps ==
  [][HandleInputBlur =>
       LET v == parseInt(bpmInput)
       IN  /\ (v.nan \/ v.val < 30) => (bpm' = 30 /\ bpmInput' = <<"3", "0">>)
           /\ (~v.nan /\ v.val > 220)
                => (bpm' = 220 /\ bpmInput' = <<"2", "2", "0">>)
           /\ (~v.nan /\ v.val >= 30 /\ v.val <= 220)
                => (bpm' = bpm /\ bpmInput' = bpmInput)
           /\ mounted'
           /\ bpm' \in 30..220
           /\ isPlaying' = isPlaying
           /\ beat' = beat
    ]_vars

C13_Witness ==
  /\ isPlaying
  /\ beat >= 1
  /\ bpmInput = <<"2", "2", "0">>
  /\ bpm = 220
  /\ \E t \in timers : t.n * 220 = 60000 * t.d

(* C14: an edit of the BPM field makes the text the typed text; bpm becomes n
   exactly when the text parses to an integer n with 30 <= n <= 220, and for
   any other text bpm, the playing flag, the timers and the beat counter are
   left unchanged. *)
C14_EditAcceptsInRangeOnly ==
  [][\A s \in InputTexts :
       HandleInputChange(s) =>
         LET v == parseInt(s)
         IN  /\ bpmInput' = s
             /\ IF ~v.nan /\ v.val >= 30 /\ v.val <= 220
                  THEN bpm' = v.val
                  ELSE /\ bpm' = bpm
                       /\ isPlaying' = isPlaying
                       /\ timers' = timers
                       /\ beat' = beat
    ]_vars

C14_Witness ==
  /\ isPlaying
  /\ beat >= 1
  /\ bpmInput = <<"a", "b", "c">>
  /\ bpm = 50
  /\ \E t \in timers : t.elapsed > 0

(* C15: for every bpm in [30, 220] the zone is Bradycardia iff bpm < 60,
   Resting iff 60 <= bpm <= 100, Moderate iff 101 <= bpm <= 140, Vigorous iff
   141 <= bpm <= 170 and Maximum iff bpm >= 171; a label always comes with the
   same color, and the zone is the same whatever the rest of the state is. *)
C15_ZoneByBpm ==
  LET z == getBpmZone(bpm)
  IN  /\ z.label = "Bradycardia" <=> bpm < 60
      /\ z.label = "Resting" <=> (60 <= bpm /\ bpm <= 100)
      /\ z.label = "Moderate" <=> (101 <= bpm /\ bpm <= 140)
      /\ z.label = "Vigorous" <=> (141 <= bpm /\ bpm <= 170)
      /\ z.label = "Maximum" <=> bpm >= 171
      /\ z.label \in {"Bradycardia", "Resting", "Moderate", "Vigorous",
                       "Maximum"}
      /\ \A b \in MIN_BPM..MAX_BPM :
           getBpmZone(b).label = z.label => getBpmZone(b).color = z.color

C15_Witness ==
  /\ bpm = 100
  /\ bpmInput = <<"1", "0", "0">>
  /\ getBpmZone(bpm).label = "Resting"

\* the phase of the plotted point
ProbePhase == Phase(probe.x, probe.offset, probe.bw)

PhaseIn(lo, hi) ==
  FracLess(Frac(lo, 100), ProbePhase) /\ FracLess(ProbePhase, Frac(hi, 100))

(* C16: getEKGY is periodic in x with period bw: the value at x + bw, x + 2 bw,
   ... is the value at x, for the same offset, bw and mid. *)
C16_WavePeriodic == probe.plotted => probe.y = probe.first

C16_Witness ==
  /\ probe.plotted
  /\ probe.periods = MaxPeriods
  /\ probe.bw = BeatWidth(TSX_INITIAL_BPM)
  /\ probe.offset # Frac(0, 1)
  /\ probe.y.base # probe.mid

(* C17: with phase t = ((x + offset) mod bw) / bw, getEKGY is
   mid + 9 (t - 0.22) / 0.02 on (0.22, 0.24), mid + 9 - 46 (t - 0.24) / 0.04 on
   (0.24, 0.28), mid - 37 + 48 (t - 0.28) / 0.04 on (0.28, 0.32),
   mid + 11 - 11 (t - 0.32) / 0.02 on (0.32, 0.34), and exactly mid for every t
   outside (0.10, 0.18), (0.22, 0.34) and (0.40, 0.52). *)
C17_WaveSegments ==
  probe.plotted =>
    LET t == ProbePhase
        mid == probe.mid
        y == probe.y
    IN  /\ PhaseIn(22, 24) =>
             /\ y.amp = 0
             /\ FracMul(FracSub(y.base, mid), Frac(2, 100))
                  = FracMul(Frac(9, 1), FracSub(t, Frac(22, 100)))
        /\ PhaseIn(24, 28) =>
             /\ y.amp = 0
             /\ FracMul(FracSub(y.base, FracAdd(mid, Frac(9, 1))), Frac(4, 100))
                  = FracMul(Frac(-46, 1), FracSub(t, Frac(24, 100)))
        /\ PhaseIn(28, 32) =>
             /\ y.amp = 0
             /\ FracMul(FracSub(y.base, FracSub(mid, Frac(37, 1))), Frac(4, 100))
                  = FracMul(Frac(48, 1), FracSub(t, Frac(28, 100)))
        /\ PhaseIn(32, 34) =>
             /\ y.amp = 0
             /\ FracMul(FracSub(y.base, FracAdd(mid, Frac(11, 1))), Frac(2, 100))
                  = FracMul(Frac(-11, 1), FracSub(t, Frac(32, 100)))
        /\ (~PhaseIn(10, 18) /\ ~PhaseIn(22, 34) /\ ~PhaseIn(40, 52)) =>
             y = Level(mid)

C17_Witness ==
  /\ probe.plotted
  /\ probe.periods = 0
  /\ ProbePhase = Frac(26, 100)
  /\ probe.mid = Frac(28, 1)
  /\ probe.y = Level(Frac(14, 1))

(* C18: for a beat made at audio time t the S2 oscillator starts exactly 130 ms
   after t and stops 120 ms after it starts, and every scheduled time of the
   beat is t plus a constant: relative to t the schedule is that of the first
   beat, whatever the BPM and however many beats went before. *)
C18_S2At130ms ==
  probe.called =>
    /\ \E e \in probe.schedule :
         e.node = "o2" /\ e.op = "start" /\ e.at = probe.time + 130
    /\ \A e \in probe.schedule :
         (e.node = "o2" /\ e.op = "start") => e.at = probe.time + 130
    /\ \A e \in probe.schedule :
         (e.node = "o2" /\ e.op = "stop") => e.at = probe.time + 130 + 120
    /\ \E e \in probe.schedule : e.node = "o2" /\ e.op = "stop"
    /\ Shape(probe.schedule, probe.time) = probe.first

C18_Witness ==
  /\ probe.called
  /\ probe.time = 273 + 370
  /\ probe.clock = probe.time
  /\ bpm = MAX_BPM
  /\ Ev("o2", "start", 273 + 370 + 130) \in probe.schedule

\* the calls of createHeartbeatSound that still have a source to end
CallsSounding == {s.call : s \in sources}

(* C19: in heartbeat.tsx, once the four sources of a beat have ended and their
   ended callbacks have run, no node created for that beat is connected any
   more: the connected per-beat nodes are at most the nine of each beat that
   still has a source to end, and none when no source is left. *)
C19_NodesReleased ==
  variant = "tsx" =>
    /\ \A c \in connected : c.call \in CallsSounding
    /\ Cardinality(connected) <= 9 * Cardinality(CallsSounding)
    /\ sources = {} => connected = {}

C19_Witness ==
  /\ variant = "tsx"
  /\ isPlaying
  /\ synthCalls >= 3
  /\ sources = {}
  /\ connected = {}

(* C20: once a noise buffer has been generated, every later beat of
   heartbeat.tsx gets that same buffer from getNoiseBuffer, unless the sample
   rate of the audio context differs from the rate the buffer was generated
   for; this across beats, stops, starts, unmounts and remounts. *)
C20_NoiseBufferKept ==
  [][(/\ variant = "tsx"
      /\ synthCalls' > synthCalls
      /\ cachedSampleRate # 0
      /\ cachedSampleRate = sampleRate)
       => (cachedNoiseBuffer # NoBuffer /\ cachedNoiseBuffer' = cachedNoiseBuffer)
    ]_vars

(* C21: in heartbeat.tsx at most one animation-frame callback of the EKG is
   pending while playing and none while not playing, whatever BPM, start/stop
   and resize changes came before. *)
C21_AtMostOneFrame ==
  variant = "tsx" =>
    /\ Cardinality(frames) <= 1
    /\ ~isPlaying => frames = {}

C21_Witness ==
  /\ variant = "tsx"
  /\ isPlaying
  /\ rearmed
  /\ dimW # 0
  /\ beat >= 2
  /\ off # Frac(0, 1)
  /\ Cardinality(frames) = 1

\* a step in which draw() runs with isPlaying true: a requested frame, or the
\* animation effect after a start, a BPM change or a resize
PlayingDraw ==
  \/ \E f \in frames : Frame(f)
  \/ /\ mounted' /\ isPlaying' /\ dimW' # 0
     /\ (bpm' # bpm \/ ~isPlaying \/ \E w \in Widths : Resize(w))

(* C23: each frame drawn while playing advances the scroll offset by exactly 1.5
   modulo the current beat width 7200 / bpm, and leaves 0 <= offset < beat
   width, also right after a BPM change that shrinks the beat width; while not
   playing the offset does not change. *)
C23_OffsetAdvances ==
  [][/\ PlayingDraw =>
          /\ off' = FracMod(FracAdd(off, Frac(3, 2)), Frac(7200, bpm'))
          /\ FracLeq(Frac(0, 1), off')
          /\ FracLess(off', Frac(7200, bpm'))
     /\ (mounted' /\ ~isPlaying') => off' = off
    ]_vars

C23_Witness ==
  /\ isPlaying
  /\ bpm = 200
  /\ rearmed
  /\ frames # {}
  /\ off = Frac(12, 1)

(* C25: the QRS part of the waveform is continuous in the phase: at the phases
   exactly 0.24, 0.28 and 0.32 getEKGY returns the common endpoint of the two
   adjacent segments, mid + 9, mid - 37 and mid + 11, not the baseline. *)
C25_QrsContinuous ==
  probe.plotted =>
    /\ ProbePhase = Frac(24, 100)
         => probe.y = Level(FracAdd(probe.mid, Frac(9, 1)))
    /\ ProbePhase = Frac(28, 100)
         => probe.y = Level(FracSub(probe.mid, Frac(37, 1)))
    /\ ProbePhase = Frac(32, 100)
         => probe.y = Level(FracAdd(probe.mid, Frac(11, 1)))

(* C26: in every reachable state, if the text of the BPM field parses
   (parseInt, base 10) to an integer n with 30 <= n <= 220 then bpm = n: the
   text and bpm disagree only while the text does not parse or is out of
   range. *)
C26_TextAgreesWithBpm ==
  LET v == parseInt(bpmInput)
  IN  (~v.nan /\ v.val >= 30 /\ v.val <= 220) => bpm = v.val

C26_Witness ==
  /\ bpmInput = <<"7", "2", ".", "9">>
  /\ bpm = 72

(* C27: after every blur of the BPM field, whatever was typed before, the text
   is exactly the decimal representation of bpm: in every reachable state the
   text and the bpm that handleInputBlur leaves agree in this way. *)
C27_BlurNormalizesText ==
  mounted => InputBlurText(bpmInput) = String(InputBlurBpm(bpmInput, bpm))

\* the stop times of the sources of one beat, from the time argument of the call
StopTimes == {e.at : e \in {e \in createHeartbeatSound(variant, 0) : e.op = "stop"}}

(* C29: for every integer bpm in [30, 220], while playing at that bpm the latest
   stop of a beat's sources is S2's, 130 + 120 = 250 ms after the trigger, and
   every source of the beat has stopped before the armed timer, 60000 / bpm ms
   after the trigger, starts the next beat. *)
C29_BeatEndsBeforeNext ==
  (mounted /\ isPlaying) =>
    /\ 130 + 120 \in StopTimes
    /\ \A st \in StopTimes : st <= 130 + 120
    /\ \A t \in timers :
         /\ t.n * bpm = 60000 * t.d
         /\ \A st \in StopTimes : st * t.d < t.n

C29_Witness ==
  /\ isPlaying
  /\ bpm = MAX_BPM
  /\ beat >= 2
  /\ \E t \in timers : t.elapsed = 0 /\ t.n * 11 = 3000 * t.d

(* C24: within one playing session of heartbeat.tsx two consecutive synthesized
   beats are at least the beat period in force apart, also when start is
   invoked again while an earlier start awaits resume(): no task synthesizes
   two beats (they would have the same audio time), and a timer beat comes no
   sooner after the previous beat than the timer's period. *)
C24_BeatsApartByPeriod ==
  [][variant = "tsx" =>
       /\ synthCalls' <= synthCalls + 1
       /\ (TickStep /\ beatBpm # 0)
            => FracLeq(Delay(TRUE, bpm), BeatGap(TheTimer))
    ]_vars

(* C22: after heartbeat.tsx is unmounted no timer is armed, no animation-frame
   callback is pending, the audio context is closed, and no beat is
   synthesized for the unmounted instance. *)
C22_NothingAfterUnmount ==
  (variant = "tsx" /\ ~mounted) =>
    /\ timers = {}
    /\ frames = {}
    /\ ctxState = "closed"
    /\ lateCalls = 0

(* C28: the unlock listeners that the mount of heartbeat.tsx registers are all
   removed when the first of them fires and when the component unmounts, so
   that no gesture runs the warm-up on a context that has been closed. *)
C28_UnlockListenersRemoved ==
  [][/\ (mounted /\ ~mounted') => unlockers' = {}
     /\ Gesture => (unlockers' = {} /\ "earlier" \notin unlockers)
    ]_vars

=============================================================================
